---- MODULE Spec2Model ----
(***************************************************************************)
(* The event codec of lib/vector-core/src/event/proto.rs: the conversions  *)
(* between the canonical event model (event::Value, event::Metric,         *)
(* event::LogEvent, event::Event) and the protobuf wire messages (Value,   *)
(* Metric, Log, EventWrapper).                                             *)
(*                                                                         *)
(* Every conversion is a pure function.  A behaviour starts from one input *)
(* (a canonical or a wire entity) and each step applies the conversion     *)
(* that fits the entity produced last; `val` keeps the input and every     *)
(* result, `call` the conversions applied.                                 *)
(***************************************************************************)
EXTENDS Integers, Sequences, FiniteSets, TLC

VARIABLES call, val

vars == <<call, val>>

(***************************************************************************)
(* Bounds of the model.                                                    *)
(***************************************************************************)
\* longest repeated field (array items, set values, legacy sequences)
MaxLen == 2
\* deepest nesting of containers added on top of the one-level value trees
MaxDepth == 2
\* longest chain of conversions applied to one input
MaxCalls == 4

(***************************************************************************)
(* Rust's Option, and the outcome of a conversion that panics (unwrap on   *)
(* None, chrono's timestamp on an instant it cannot represent).            *)
(***************************************************************************)
None == [tag |-> "None"]

Some(x) == [tag |-> "Some", val |-> x]

Panic == [tag |-> "Panic"]

\* the keys of a BTreeMap<String, _> in iteration (ascending) order
KeyOrder == <<"a", "b">>

RECURSIVE SortedKeysFrom(_, _)
SortedKeysFrom(i, dom) ==
  IF i > Len(KeyOrder) THEN <<>>
  ELSE (IF KeyOrder[i] \in dom THEN <<KeyOrder[i]>> ELSE <<>>)
       \o SortedKeysFrom(i + 1, dom)

into_iter(map) == SortedKeysFrom(1, DOMAIN map)

EmptyMap == [k \in {} |-> None]

(***************************************************************************)
(* Integer casts.  A u32 is kept as hi * 2^31 + lo so that the cast of a   *)
(* negative i32 stays representable.                                       *)
(***************************************************************************)
as_u32(n) ==
  IF n >= 0 THEN [hi |-> 0, lo |-> n]
  ELSE [hi |-> 1, lo |-> (n + 2147483647) + 1]

as_i32(u) ==
  IF u.hi = 0 THEN u.lo ELSE (u.lo - 2147483647) - 1

(***************************************************************************)
(* chrono.  A DateTime<Utc> is a day number, the second of the day and the *)
(* nanosecond fraction (up to 2*10^9 - 1: a leap second).                  *)
(* Utc.timestamp(secs, nsecs) unwraps timestamp_opt, which is None when    *)
(* nsecs >= 2*10^9.  (The year range of NaiveDate is not modelled: the     *)
(* seconds of the model stay far inside it.)                               *)
(***************************************************************************)
utc_timestamp(secs, nsecs) ==
  IF nsecs.hi = 0 /\ nsecs.lo < 2000000000
  THEN [days |-> secs \div 86400, secs |-> secs % 86400, frac |-> nsecs]
  ELSE Panic

dt_timestamp(ts) == ts.days * 86400 + ts.secs

dt_timestamp_subsec_nanos(ts) == ts.frac

\* prost_types::Timestamp
ProstTimestamp(s, n) == [seconds |-> s, nanos |-> n]

(***************************************************************************)
(* Wire Value { kind: Option<value::Kind> } and canonical event::Value.    *)
(***************************************************************************)
NoKind == [kind |-> None]

Kind(k) == [kind |-> k]

WRawBytes(d) == Kind([tag |-> "RawBytes", data |-> d])
WTimestamp(ts) == Kind([tag |-> "Timestamp", ts |-> ts])
WInteger(i) == Kind([tag |-> "Integer", value |-> i])
WFloat(f) == Kind([tag |-> "Float", value |-> f])
WBoolean(b) == Kind([tag |-> "Boolean", value |-> b])
WMap(fields) == Kind([tag |-> "Map", fields |-> fields])
WArray(items) == Kind([tag |-> "Array", items |-> items])
\* ValueNull::NullValue as i32
WNull == Kind([tag |-> "Null", value |-> 0])

VBytes(d) == [tag |-> "Bytes", data |-> d]
VTimestamp(dt) == [tag |-> "Timestamp", dt |-> dt]
VInteger(i) == [tag |-> "Integer", value |-> i]
VFloat(f) == [tag |-> "Float", value |-> f]
VBoolean(b) == [tag |-> "Boolean", value |-> b]
VMap(fields) == [tag |-> "Map", fields |-> fields]
VArray(items) == [tag |-> "Array", items |-> items]
VNull == [tag |-> "Null"]

(***************************************************************************)
(* decode_value, decode_map, decode_array.                                 *)
(***************************************************************************)
RECURSIVE decode_value(_)
RECURSIVE decode_map_from(_, _, _, _)
RECURSIVE decode_array_from(_, _, _)

\* the Timestamp arm of decode_value
decode_timestamp(ts) ==
  LET dt == utc_timestamp(ts.seconds, as_u32(ts.nanos))
  IN  IF dt = Panic THEN Panic ELSE Some(VTimestamp(dt))

\* a faulty variant: an entry that fails to decode is skipped and the rest is kept
RECURSIVE decode_map_from_partial(_, _, _, _)
decode_map_from_partial(fields, keys, i, accum) ==
  IF i > Len(keys) THEN Some(VMap(accum))
  ELSE LET r == decode_value(fields[keys[i]])
       IN  IF r = Panic THEN Panic
           ELSE IF r = None THEN decode_map_from_partial(fields, keys, i + 1, accum)
           ELSE decode_map_from_partial(fields, keys, i + 1,
                                        (keys[i] :> r.val) @@ accum)

\* the loop of decode_map from the i-th key on, accum holding the entries so far
decode_map_from(fields, keys, i, accum) ==
  IF i > Len(keys) THEN Some(VMap(accum))
  ELSE LET r == decode_value(fields[keys[i]])
       IN  IF r = Panic THEN Panic
           ELSE IF r = None THEN None
           ELSE decode_map_from(fields, keys, i + 1, (keys[i] :> r.val) @@ accum)

decode_map(fields) == decode_map_from(fields, into_iter(fields), 1, EmptyMap)

\* the loop of decode_array from the i-th item on
decode_array_from(items, i, accum) ==
  IF i > Len(items) THEN Some(VArray(accum))
  ELSE LET r == decode_value(items[i])
       IN  IF r = Panic THEN Panic
           ELSE IF r = None THEN None
           ELSE decode_array_from(items, i + 1, Append(accum, r.val))

decode_array(items) == decode_array_from(items, 1, <<>>)

decode_value(input) ==
  LET k == input.kind
  IN  CASE k.tag = "RawBytes" -> Some(VBytes(k.data))
        [] k.tag = "Timestamp" -> decode_timestamp(k.ts)
        [] k.tag = "Integer" -> Some(VInteger(k.value))
        [] k.tag = "Float" -> Some(VFloat(k.value))
        [] k.tag = "Boolean" -> Some(VBoolean(k.value))
        [] k.tag = "Map" -> decode_map(k.fields)
        [] k.tag = "Array" -> decode_array(k.items)
        [] k.tag = "Null" -> Some(VNull)
        [] k.tag = "None" -> None

(***************************************************************************)
(* encode_value, encode_map, encode_array.                                 *)
(***************************************************************************)
RECURSIVE encode_value(_)

\* a faulty variant: the fraction of the second is lost
encode_timestamp_whole_seconds(dt) == ProstTimestamp(dt_timestamp(dt), 0)

\* the Timestamp arm of encode_value
encode_timestamp(dt) ==
  ProstTimestamp(dt_timestamp(dt), as_i32(dt_timestamp_subsec_nanos(dt)))

encode_map(fields) == [k \in DOMAIN fields |-> encode_value(fields[k])]

encode_array(items) == [i \in 1..Len(items) |-> encode_value(items[i])]

encode_value(value) ==
  CASE value.tag = "Bytes" -> WRawBytes(value.data)
    [] value.tag = "Timestamp" -> WTimestamp(encode_timestamp(value.dt))
    [] value.tag = "Integer" -> WInteger(value.value)
    [] value.tag = "Float" -> WFloat(value.value)
    [] value.tag = "Boolean" -> WBoolean(value.value)
    [] value.tag = "Map" -> WMap(encode_map(value.fields))
    [] value.tag = "Array" -> WArray(encode_array(value.items))
    [] value.tag = "Null" -> WNull

(***************************************************************************)
(* From<Log> for event::LogEvent and From<event::LogEvent> for Log.        *)
(* A LogEvent is its fields and the pipeline's metadata, which the wire    *)
(* does not carry.                                                         *)
(***************************************************************************)
LogEvent(fields) == [fields |-> fields, metadata |-> "default"]

Log(fields) == [fields |-> fields]

\* a faulty variant: a field that fails to decode is kept as Null
log_decode_null(log) ==
  LET dec == [k \in DOMAIN log.fields |-> decode_value(log.fields[k])]
  IN  IF \E k \in DOMAIN dec : dec[k] = Panic THEN Panic
      ELSE LogEvent([k \in DOMAIN dec |->
                       IF dec[k] = None THEN VNull ELSE dec[k].val])

log_decode(log) ==
  LET dec == [k \in DOMAIN log.fields |-> decode_value(log.fields[k])]
      kept == {k \in DOMAIN dec : dec[k] # None}
  IN  IF \E k \in DOMAIN dec : dec[k] = Panic THEN Panic
      ELSE LogEvent([k \in kept |-> dec[k].val])

log_encode(log_event) ==
  Log([k \in DOMAIN log_event.fields |-> encode_value(log_event.fields[k])])

(***************************************************************************)
(* The metric codec.  Enum fields travel as i32 (Incremental = 0,          *)
(* Absolute = 1; Histogram = 0, Summary = 1); the prost getters kind() and *)
(* statistic() give the default variant (number 0) for a number that names *)
(* no variant.                                                             *)
(***************************************************************************)
\* metric.kind() and the match on it
decode_kind(n) == IF n = 1 THEN "Absolute" ELSE "Incremental"

\* the match on metric.data.kind, then .into()
encode_kind(kind) == IF kind = "Absolute" THEN 1 ELSE 0

\* dist.statistic().into()
decode_statistic(n) == IF n = 1 THEN "Summary" ELSE "Histogram"

\* the match on statistic, then .into()
encode_statistic(statistic) == IF statistic = "Summary" THEN 1 ELSE 0

Min(a, b) == IF a <= b THEN a ELSE b

\* event::metric::zip_samples, zip_buckets, zip_quantiles
zip_samples(values, rates) ==
  [i \in 1..Min(Len(values), Len(rates)) |->
     [value |-> values[i], rate |-> rates[i]]]

zip_buckets(limits, counts) ==
  [i \in 1..Min(Len(limits), Len(counts)) |->
     [upper_limit |-> limits[i], count |-> counts[i]]]

zip_quantiles(quantiles, values) ==
  [i \in 1..Min(Len(quantiles), Len(values)) |->
     [quantile |-> quantiles[i], value |-> values[i]]]

\* Into::into between the wire pair messages and the canonical pairs
sample_into(s) == [value |-> s.value, rate |-> s.rate]

bucket_into(b) == [upper_limit |-> b.upper_limit, count |-> b.count]

quantile_into(q) == [quantile |-> q.quantile, value |-> q.value]

\* the values of a Set collected into the canonical set
collect_set(values) == {values[i] : i \in 1..Len(values)}

\* the canonical set iterated into the wire sequence
set_into_iter(values) == SortedKeysFrom(1, values)

\* a faulty variant: the legacy summary pairs the quantiles with themselves
decode_metric_value_self_zip(v) ==
  CASE v.tag = "Counter" -> [tag |-> "Counter", value |-> v.value]
    [] v.tag = "Gauge" -> [tag |-> "Gauge", value |-> v.value]
    [] v.tag = "Set" -> [tag |-> "Set", values |-> collect_set(v.values)]
    [] v.tag = "Distribution1" ->
         [tag |-> "Distribution",
          statistic |-> decode_statistic(v.statistic),
          samples |-> zip_samples(v.values, v.sample_rates)]
    [] v.tag = "Distribution2" ->
         [tag |-> "Distribution",
          statistic |-> decode_statistic(v.statistic),
          samples |-> [i \in 1..Len(v.samples) |-> sample_into(v.samples[i])]]
    [] v.tag = "AggregatedHistogram1" ->
         [tag |-> "AggregatedHistogram",
          buckets |-> zip_buckets(v.buckets, v.counts),
          count |-> v.count, sum |-> v.sum]
    [] v.tag = "AggregatedHistogram2" ->
         [tag |-> "AggregatedHistogram",
          buckets |-> [i \in 1..Len(v.buckets) |-> bucket_into(v.buckets[i])],
          count |-> v.count, sum |-> v.sum]
    [] v.tag = "AggregatedSummary1" ->
         [tag |-> "AggregatedSummary",
          quantiles |-> zip_quantiles(v.quantiles, v.quantiles),
          count |-> v.count, sum |-> v.sum]
    [] v.tag = "AggregatedSummary2" ->
         [tag |-> "AggregatedSummary",
          quantiles |-> [i \in 1..Len(v.quantiles) |-> quantile_into(v.quantiles[i])],
          count |-> v.count, sum |-> v.sum]

\* the match on metric.value of From<Metric> for event::Metric
decode_metric_value(v) ==
  CASE v.tag = "Counter" -> [tag |-> "Counter", value |-> v.value]
    [] v.tag = "Gauge" -> [tag |-> "Gauge", value |-> v.value]
    [] v.tag = "Set" -> [tag |-> "Set", values |-> collect_set(v.values)]
    [] v.tag = "Distribution1" ->
         [tag |-> "Distribution",
          statistic |-> decode_statistic(v.statistic),
          samples |-> zip_samples(v.values, v.sample_rates)]
    [] v.tag = "Distribution2" ->
         [tag |-> "Distribution",
          statistic |-> decode_statistic(v.statistic),
          samples |-> [i \in 1..Len(v.samples) |-> sample_into(v.samples[i])]]
    [] v.tag = "AggregatedHistogram1" ->
         [tag |-> "AggregatedHistogram",
          buckets |-> zip_buckets(v.buckets, v.counts),
          count |-> v.count, sum |-> v.sum]
    [] v.tag = "AggregatedHistogram2" ->
         [tag |-> "AggregatedHistogram",
          buckets |-> [i \in 1..Len(v.buckets) |-> bucket_into(v.buckets[i])],
          count |-> v.count, sum |-> v.sum]
    [] v.tag = "AggregatedSummary1" ->
         [tag |-> "AggregatedSummary",
          quantiles |-> zip_quantiles(v.quantiles, v.values),
          count |-> v.count, sum |-> v.sum]
    [] v.tag = "AggregatedSummary2" ->
         [tag |-> "AggregatedSummary",
          quantiles |-> [i \in 1..Len(v.quantiles) |-> quantile_into(v.quantiles[i])],
          count |-> v.count, sum |-> v.sum]

\* a faulty variant: the arms of the match on the kind are swapped
decode_metric_kind_swapped(metric) ==
  IF decode_kind(metric.kind) = "Absolute" THEN "Incremental" ELSE "Absolute"

\* metric.kind() and the match on it
decode_metric_kind(metric) == decode_kind(metric.kind)

\* a faulty variant: the empty namespace is kept as a namespace
decode_namespace_kept(metric) == Some(metric.namespace)

\* namespace: the empty string is no namespace
decode_namespace(metric) ==
  IF metric.namespace = "" THEN None ELSE Some(metric.namespace)

\* a faulty variant: the tags are dropped
decode_tags_dropped(metric) == None

\* tags: the empty map is no tags
decode_tags(metric) ==
  IF DOMAIN metric.tags = {} THEN None ELSE Some(metric.tags)

\* metric.timestamp.map(|ts| Utc.timestamp(ts.seconds, ts.nanos as u32))
decode_metric_timestamp(metric) ==
  IF metric.timestamp = None THEN None
  ELSE LET ts == metric.timestamp.val
           dt == utc_timestamp(ts.seconds, as_u32(ts.nanos))
       IN  IF dt = Panic THEN Panic ELSE Some(dt)

\* From<Metric> for event::Metric
decode_metric(metric) ==
  LET kind == decode_metric_kind(metric)
      namespace == decode_namespace(metric)
      timestamp == decode_metric_timestamp(metric)
      tags == decode_tags(metric)
  IN  IF timestamp = Panic THEN Panic
      ELSE IF metric.value = None THEN Panic
      ELSE [series |-> [name |-> [name |-> metric.name, namespace |-> namespace],
                        tags |-> tags],
            data |-> [timestamp |-> timestamp, kind |-> kind,
                      value |-> decode_metric_value(metric.value)]]

\* a faulty variant: an aggregated histogram is written in the legacy parallel form
encode_metric_value_legacy(v) ==
  CASE v.tag = "Counter" -> [tag |-> "Counter", value |-> v.value]
    [] v.tag = "Gauge" -> [tag |-> "Gauge", value |-> v.value]
    [] v.tag = "Set" -> [tag |-> "Set", values |-> set_into_iter(v.values)]
    [] v.tag = "Distribution" ->
         [tag |-> "Distribution2",
          samples |-> [i \in 1..Len(v.samples) |-> sample_into(v.samples[i])],
          statistic |-> encode_statistic(v.statistic)]
    [] v.tag = "AggregatedHistogram" ->
         [tag |-> "AggregatedHistogram1",
          buckets |-> [i \in 1..Len(v.buckets) |-> v.buckets[i].upper_limit],
          counts |-> [i \in 1..Len(v.buckets) |-> v.buckets[i].count],
          count |-> v.count, sum |-> v.sum]
    [] v.tag = "AggregatedSummary" ->
         [tag |-> "AggregatedSummary2",
          quantiles |-> [i \in 1..Len(v.quantiles) |-> quantile_into(v.quantiles[i])],
          count |-> v.count, sum |-> v.sum]

\* the match on metric.data.value of From<event::Metric> for Metric
encode_metric_value(v) ==
  CASE v.tag = "Counter" -> [tag |-> "Counter", value |-> v.value]
    [] v.tag = "Gauge" -> [tag |-> "Gauge", value |-> v.value]
    [] v.tag = "Set" -> [tag |-> "Set", values |-> set_into_iter(v.values)]
    [] v.tag = "Distribution" ->
         [tag |-> "Distribution2",
          samples |-> [i \in 1..Len(v.samples) |-> sample_into(v.samples[i])],
          statistic |-> encode_statistic(v.statistic)]
    [] v.tag = "AggregatedHistogram" ->
         [tag |-> "AggregatedHistogram2",
          buckets |-> [i \in 1..Len(v.buckets) |-> bucket_into(v.buckets[i])],
          count |-> v.count, sum |-> v.sum]
    [] v.tag = "AggregatedSummary" ->
         [tag |-> "AggregatedSummary2",
          quantiles |-> [i \in 1..Len(v.quantiles) |-> quantile_into(v.quantiles[i])],
          count |-> v.count, sum |-> v.sum]

\* Option::unwrap_or_default of the namespace and of the tags
encode_namespace(metric) ==
  IF metric.series.name.namespace = None THEN ""
  ELSE metric.series.name.namespace.val

encode_tags(metric) ==
  IF metric.series.tags = None THEN EmptyMap ELSE metric.series.tags.val

encode_metric_timestamp(metric) ==
  IF metric.data.timestamp = None THEN None
  ELSE LET ts == metric.data.timestamp.val
       IN  Some(ProstTimestamp(dt_timestamp(ts),
                               as_i32(dt_timestamp_subsec_nanos(ts))))

\* From<event::Metric> for Metric
encode_metric(metric) ==
  [name |-> metric.series.name.name,
   namespace |-> encode_namespace(metric),
   timestamp |-> encode_metric_timestamp(metric),
   tags |-> encode_tags(metric),
   kind |-> encode_kind(metric.data.kind),
   value |-> encode_metric_value(metric.data.value)]

(***************************************************************************)
(* The event envelope.                                                     *)
(***************************************************************************)
EventWrapper(event) == [event |-> event]

\* a faulty variant: an envelope without an event decodes to an empty log
decode_event_default(proto) ==
  LET event == proto.event
  IN  CASE event = None -> [tag |-> "Log", log |-> LogEvent(EmptyMap)]
        [] event.tag = "Chunk" ->
             [tag |-> "Chunk", bytes |-> event.bytes, metadata |-> "default"]
        [] event.tag = "Frame" ->
             [tag |-> "Frame", bytes |-> event.bytes, metadata |-> "default"]
        [] event.tag = "Log" ->
             LET log == log_decode(event.log)
             IN  IF log = Panic THEN Panic ELSE [tag |-> "Log", log |-> log]
        [] event.tag = "Metric" ->
             LET metric == decode_metric(event.metric)
             IN  IF metric = Panic THEN Panic
                 ELSE [tag |-> "Metric", metric |-> metric]

\* From<EventWrapper> for event::Event
decode_event(proto) ==
  LET event == proto.event
  IN  CASE event = None -> Panic
        [] event.tag = "Chunk" ->
             [tag |-> "Chunk", bytes |-> event.bytes, metadata |-> "default"]
        [] event.tag = "Frame" ->
             [tag |-> "Frame", bytes |-> event.bytes, metadata |-> "default"]
        [] event.tag = "Log" ->
             LET log == log_decode(event.log)
             IN  IF log = Panic THEN Panic ELSE [tag |-> "Log", log |-> log]
        [] event.tag = "Metric" ->
             LET metric == decode_metric(event.metric)
             IN  IF metric = Panic THEN Panic
                 ELSE [tag |-> "Metric", metric |-> metric]

\* From<event::Event> for Event, then From<Event> for EventWrapper
encode_event(event) ==
  CASE event.tag = "Chunk" -> EventWrapper([tag |-> "Chunk", bytes |-> event.bytes])
    [] event.tag = "Frame" -> EventWrapper([tag |-> "Frame", bytes |-> event.bytes])
    [] event.tag = "Log" -> EventWrapper([tag |-> "Log", log |-> log_encode(event.log)])
    [] event.tag = "Metric" ->
         EventWrapper([tag |-> "Metric", metric |-> encode_metric(event.metric)])

(***************************************************************************)
(* The inputs.  f64 values are the numbers 1, 2, ...; strings are short.   *)
(***************************************************************************)
Keys == {KeyOrder[i] : i \in 1..Len(KeyOrder)}

SeqsUpTo(S, n) == UNION {[1..k -> S] : k \in 0..n}

MapsOver(K, S) == UNION {[D -> S] : D \in SUBSET K}

\* wire timestamps chrono can represent: before the epoch, and a leap second
WireTimestamps == {ProstTimestamp(-1, 5), ProstTimestamp(86401, 1999999999)}

\* the instants those timestamps denote
DateTimes ==
  {[days |-> -1, secs |-> 86399, frac |-> [hi |-> 0, lo |-> 5]],
   [days |-> 1, secs |-> 1, frac |-> [hi |-> 0, lo |-> 1999999999]]}

WireLeaves ==
  {WRawBytes(<<104, 105>>), WInteger(5), WFloat(3), WBoolean(TRUE), WNull, NoKind,
   Kind([tag |-> "Null", value |-> 1])}
  \cup {WTimestamp(ts) : ts \in WireTimestamps}

WireNarrowLeaves == {WInteger(5), NoKind}

ValueLeaves ==
  {VBytes(<<104, 105>>), VInteger(5), VFloat(3), VBoolean(TRUE), VNull}
  \cup {VTimestamp(dt) : dt \in DateTimes}

ValueNarrowLeaves == {VInteger(5), VNull}

\* the wire containers that hold leaves only
WireContainers(L, n) ==
  {WMap(f) : f \in MapsOver(Keys, L)} \cup {WArray(q) : q \in SeqsUpTo(L, n)}

\* the wire containers that hold one element of S, alone or beside a leaf
WireNest(S, L) ==
  {WMap("a" :> s) : s \in S}
  \cup {WMap(("a" :> l) @@ ("b" :> s)) : s \in S, l \in L}
  \cup {WArray(<<s>>) : s \in S}
  \cup {WArray(<<s, l>>) : s \in S, l \in L}

\* wire trees of depth d + 1 at most (d + 1 exactly, from d = 1 on)
RECURSIVE WireNested(_)
WireNested(d) ==
  IF d = 0 THEN WireNarrowLeaves \cup WireContainers(WireNarrowLeaves, 1)
  ELSE WireNest(WireNested(d - 1), WireNarrowLeaves)

\* the same for the canonical values
ValueContainers(L, n) ==
  {VMap(f) : f \in MapsOver(Keys, L)} \cup {VArray(q) : q \in SeqsUpTo(L, n)}

ValueNest(S, L) ==
  {VMap("a" :> s) : s \in S}
  \cup {VMap(("a" :> l) @@ ("b" :> s)) : s \in S, l \in L}
  \cup {VArray(<<s>>) : s \in S}
  \cup {VArray(<<s, l>>) : s \in S, l \in L}

RECURSIVE ValueNested(_)
ValueNested(d) ==
  IF d = 0 THEN ValueNarrowLeaves \cup ValueContainers(ValueNarrowLeaves, 1)
  ELSE ValueNest(ValueNested(d - 1), ValueNarrowLeaves)

WireValues ==
  WireLeaves \cup WireContainers(WireLeaves, MaxLen)
  \cup UNION {WireNested(d) : d \in 1..MaxDepth}

Values ==
  ValueLeaves \cup ValueContainers(ValueLeaves, MaxLen)
  \cup UNION {ValueNested(d) : d \in 1..MaxDepth}

\* wire logs: up to two fields, each a leaf or a small tree
WireLogs == {Log(f) : f \in MapsOver(Keys, WireLeaves \cup WireNested(0))}

\* wire metric values
Floats == {1, 2}

Rates == {5, 6}

WireSamples == {[value |-> 1, rate |-> 5], [value |-> 2, rate |-> 6]}

WireBuckets == {[upper_limit |-> 1, count |-> 5], [upper_limit |-> 2, count |-> 6]}

WireQuantiles == {[quantile |-> 1, value |-> 2], [quantile |-> 2, value |-> 1]}

WireMetricValues ==
  {[tag |-> "Counter", value |-> 1], [tag |-> "Gauge", value |-> 2], None}
  \cup {[tag |-> "Set", values |-> s] : s \in SeqsUpTo(Keys, MaxLen)}
  \cup {[tag |-> "Distribution1", values |-> a, sample_rates |-> b, statistic |-> st] :
          a \in SeqsUpTo(Floats, MaxLen), b \in SeqsUpTo(Rates, MaxLen), st \in 0..2}
  \cup {[tag |-> "Distribution2", samples |-> a, statistic |-> st] :
          a \in SeqsUpTo(WireSamples, MaxLen), st \in 0..2}
  \cup {[tag |-> "AggregatedHistogram1", buckets |-> a, counts |-> b,
         count |-> 7, sum |-> 3] :
          a \in SeqsUpTo(Floats, MaxLen), b \in SeqsUpTo(Rates, MaxLen)}
  \cup {[tag |-> "AggregatedHistogram2", buckets |-> a, count |-> 7, sum |-> 3] :
          a \in SeqsUpTo(WireBuckets, MaxLen)}
  \cup {[tag |-> "AggregatedSummary1", quantiles |-> a, values |-> b,
         count |-> 7, sum |-> 3] :
          a \in SeqsUpTo(Floats, MaxLen), b \in SeqsUpTo(Floats, MaxLen)}
  \cup {[tag |-> "AggregatedSummary2", quantiles |-> a, count |-> 7, sum |-> 3] :
          a \in SeqsUpTo(WireQuantiles, MaxLen)}

\* a wire metric's other fields: any i32 pair as a timestamp (one with negative
\* nanos, one past the leap second), kind numbers with and without a variant
WireMetricTimestamps ==
  {None} \cup {Some(ts) : ts \in WireTimestamps}
  \cup {Some(ProstTimestamp(0, -1)), Some(ProstTimestamp(0, 2000000000))}

WireTags == {EmptyMap, "a" :> "x"}

WireMetric(ns, ts, tags, kind, value) ==
  [name |-> "m", namespace |-> ns, timestamp |-> ts, tags |-> tags,
   kind |-> kind, value |-> value]

\* every combination of the other fields for a few values, and every value
\* for a bare and for a fully populated metric
WireMetrics ==
  {WireMetric(ns, ts, tags, kind, value) :
     ns \in {"", "ns"}, ts \in WireMetricTimestamps, tags \in WireTags,
     kind \in 0..2,
     value \in {[tag |-> "Counter", value |-> 1],
                [tag |-> "Set", values |-> <<"b", "a">>],
                [tag |-> "Distribution1", values |-> <<1, 2>>,
                 sample_rates |-> <<5>>, statistic |-> 1]}}
  \cup {WireMetric("", None, EmptyMap, 0, value) : value \in WireMetricValues}
  \cup {WireMetric("ns", Some(ProstTimestamp(-1, 5)), "a" :> "x", 1, value) :
          value \in WireMetricValues}

\* canonical metrics
MetricValues ==
  {[tag |-> "Counter", value |-> 1], [tag |-> "Gauge", value |-> 2]}
  \cup {[tag |-> "Set", values |-> s] : s \in SUBSET Keys}
  \cup {[tag |-> "Distribution", statistic |-> st, samples |-> a] :
          st \in {"Histogram", "Summary"}, a \in SeqsUpTo(WireSamples, MaxLen)}
  \cup {[tag |-> "AggregatedHistogram", buckets |-> a, count |-> 7, sum |-> 3] :
          a \in SeqsUpTo(WireBuckets, MaxLen)}
  \cup {[tag |-> "AggregatedSummary", quantiles |-> a, count |-> 7, sum |-> 3] :
          a \in SeqsUpTo(WireQuantiles, MaxLen)}

Metric(ns, ts, tags, kind, value) ==
  [series |-> [name |-> [name |-> "m", namespace |-> ns], tags |-> tags],
   data |-> [timestamp |-> ts, kind |-> kind, value |-> value]]

\* every combination of the other fields for a few values, and every value
\* for a bare and for a fully populated metric
Metrics ==
  {Metric(ns, ts, tags, kind, value) :
     ns \in {None, Some(""), Some("ns")},
     ts \in {None} \cup {Some(dt) : dt \in DateTimes},
     tags \in {None, Some(EmptyMap), Some("a" :> "x")},
     kind \in {"Incremental", "Absolute"},
     value \in {[tag |-> "Gauge", value |-> 2],
                [tag |-> "Set", values |-> {"a", "b"}]}}
  \cup {Metric(None, None, None, "Incremental", value) : value \in MetricValues}
  \cup {Metric(Some("ns"), Some([days |-> -1, secs |-> 86399,
                                 frac |-> [hi |-> 0, lo |-> 5]]),
                Some("a" :> "x"), "Absolute", value) : value \in MetricValues}

\* envelopes
WireEvents ==
  {None}
  \cup {[tag |-> t, bytes |-> b] : t \in {"Chunk", "Frame"}, b \in {<<>>, <<104, 105>>}}
  \cup {[tag |-> "Log", log |-> Log(f)] : f \in MapsOver(Keys, WireNarrowLeaves)}
  \cup {[tag |-> "Metric", metric |-> WireMetric(ns, ts, EmptyMap, 0, value)] :
          ns \in {"", "ns"}, ts \in WireMetricTimestamps,
          value \in {[tag |-> "Counter", value |-> 1], None}}

EventWrappers == {EventWrapper(e) : e \in WireEvents}

(***************************************************************************)
(* The state machine.                                                      *)
(***************************************************************************)
Ent(sort, x) == [sort |-> sort, x |-> x]

\* the entity a conversion ends with: its result, or the panic
Outcome(sort, r) == IF r = Panic THEN Ent("Panic", Panic) ELSE Ent(sort, r)

Last == val[Len(val)]

Apply(name, e) ==
  /\ call' = Append(call, name)
  /\ val' = Append(val, e)

Init ==
  /\ call = <<>>
  /\ \/ \E v \in Values : val = <<Ent("Value", v)>>
     \/ \E w \in WireValues : val = <<Ent("WireValue", w)>>
     \/ \E l \in WireLogs : val = <<Ent("WireLog", l)>>
     \/ \E m \in Metrics : val = <<Ent("Metric", m)>>
     \/ \E w \in WireMetrics : val = <<Ent("WireMetric", w)>>
     \/ \E w \in EventWrappers : val = <<Ent("EventWrapper", w)>>

EncodeValue ==
  /\ Len(call) < MaxCalls
  /\ Last.sort = "Value"
  /\ Apply("encode_value", Ent("WireValue", encode_value(Last.x)))

DecodeValue ==
  /\ Len(call) < MaxCalls
  /\ Last.sort = "WireValue"
  /\ Apply("decode_value", Outcome("OptionValue", decode_value(Last.x)))

DecodeLog ==
  /\ Len(call) < MaxCalls
  /\ Last.sort = "WireLog"
  /\ Apply("log_decode", Outcome("LogEvent", log_decode(Last.x)))

EncodeLog ==
  /\ Len(call) < MaxCalls
  /\ Last.sort = "LogEvent"
  /\ Apply("log_encode", Ent("WireLog", log_encode(Last.x)))

DecodeMetric ==
  /\ Len(call) < MaxCalls
  /\ Last.sort = "WireMetric"
  /\ Apply("decode_metric", Outcome("Metric", decode_metric(Last.x)))

EncodeMetric ==
  /\ Len(call) < MaxCalls
  /\ Last.sort = "Metric"
  /\ Apply("encode_metric", Ent("WireMetric", encode_metric(Last.x)))

DecodeEvent ==
  /\ Len(call) < MaxCalls
  /\ Last.sort = "EventWrapper"
  /\ Apply("decode_event", Outcome("Event", decode_event(Last.x)))

EncodeEvent ==
  /\ Len(call) < MaxCalls
  /\ Last.sort = "Event"
  /\ Apply("encode_event", Ent("EventWrapper", encode_event(Last.x)))

Next ==
  \/ EncodeValue
  \/ DecodeValue
  \/ DecodeLog
  \/ EncodeLog
  \/ DecodeMetric
  \/ EncodeMetric
  \/ DecodeEvent
  \/ EncodeEvent

Spec == Init /\ [][Next]_vars

(***************************************************************************)
(* Properties.                                                             *)
(***************************************************************************)
\* the i-th conversion applied was `name`
Called(i, name) == Len(call) >= i /\ call[i] = name

\* a wire value with an absent kind, directly or inside a container
RECURSIVE HasAbsent(_)
HasAbsent(w) ==
  CASE w.kind.tag = "None" -> TRUE
    [] w.kind.tag = "Map" -> \E k \in DOMAIN w.kind.fields : HasAbsent(w.kind.fields[k])
    [] w.kind.tag = "Array" -> \E i \in 1..Len(w.kind.items) : HasAbsent(w.kind.items[i])
    [] OTHER -> FALSE

\* C1: a canonical Value tree that is encoded and then decoded comes back
\* present and equal to the tree that went in.
C1_RoundTrip ==
  (Called(1, "encode_value") /\ Called(2, "decode_value"))
    => val[3] = Ent("OptionValue", Some(val[1].x))

\* a map holding an array was encoded and decoded
C1_Witness ==
  /\ Called(1, "encode_value") /\ Called(2, "decode_value")
  /\ val[1].x.tag = "Map"
  /\ \E k \in DOMAIN val[1].x.fields : val[1].x.fields[k].tag = "Array"
  /\ val[3].x.tag = "Some"

CurrentVariants ==
  {"Counter", "Gauge", "Set", "Distribution2", "AggregatedHistogram2",
   "AggregatedSummary2"}

LegacyVariants == {"Distribution1", "AggregatedHistogram1", "AggregatedSummary1"}

\* a wire metric's timestamp is absent or one chrono represents
TimestampOk(w) ==
  \/ w.timestamp = None
  \/ (w.timestamp.val.nanos >= 0 /\ w.timestamp.val.nanos < 2000000000)

\* C4: every wire Metric that encode_metric yields has a value, and it is
\* one of the six current sub-variants, never a legacy one.
C4_CurrentOnly ==
  \A i \in 1..Len(call) :
    call[i] = "encode_metric"
      => /\ val[i + 1].x.value # None
         /\ val[i + 1].x.value.tag \in CurrentVariants

\* a canonical aggregated histogram with buckets was encoded
C4_Witness ==
  /\ Called(1, "encode_metric")
  /\ val[1].x.data.value.tag = "AggregatedHistogram"
  /\ Len(val[1].x.data.value.buckets) = 2
  /\ val[2].x.value.tag = "AggregatedHistogram2"

\* the pairs a legacy value's parallel sequences a and b stand for
Pairs(a, b, first, second) ==
  [i \in 1..(IF Len(a) <= Len(b) THEN Len(a) ELSE Len(b)) |->
     (first :> a[i]) @@ (second :> b[i])]

\* the current sub-variant that carries the pairs of the legacy value v
AsCurrent(v) ==
  CASE v.tag = "Distribution1" ->
         [tag |-> "Distribution2", statistic |-> v.statistic,
          samples |-> Pairs(v.values, v.sample_rates, "value", "rate")]
    [] v.tag = "AggregatedHistogram1" ->
         [tag |-> "AggregatedHistogram2", count |-> v.count, sum |-> v.sum,
          buckets |-> Pairs(v.buckets, v.counts, "upper_limit", "count")]
    [] v.tag = "AggregatedSummary1" ->
         [tag |-> "AggregatedSummary2", count |-> v.count, sum |-> v.sum,
          quantiles |-> Pairs(v.quantiles, v.values, "quantile", "value")]

\* C5: a legacy sub-variant with parallel sequences a and b decodes, whatever
\* their lengths, to the pairs (a[i], b[i]) for i up to the shorter length,
\* with statistic, count and sum carried over, and the decoded metric is the
\* one the current sub-variant carrying those pairs decodes to.
C5_LegacyZip ==
  (/\ Called(1, "decode_metric")
   /\ val[1].x.value.tag \in LegacyVariants
   /\ TimestampOk(val[1].x))
    => LET v == val[1].x.value
           r == val[2].x
           d == r.data.value
       IN  /\ val[2].sort = "Metric"
           /\ v.tag = "Distribution1" =>
                /\ d.tag = "Distribution"
                /\ d.samples = Pairs(v.values, v.sample_rates, "value", "rate")
                /\ d.statistic = (IF v.statistic = 1 THEN "Summary" ELSE "Histogram")
           /\ v.tag = "AggregatedHistogram1" =>
                /\ d.tag = "AggregatedHistogram"
                /\ d.buckets = Pairs(v.buckets, v.counts, "upper_limit", "count")
                /\ d.count = v.count /\ d.sum = v.sum
           /\ v.tag = "AggregatedSummary1" =>
                /\ d.tag = "AggregatedSummary"
                /\ d.quantiles = Pairs(v.quantiles, v.values, "quantile", "value")
                /\ d.count = v.count /\ d.sum = v.sum
           /\ r = decode_metric([val[1].x EXCEPT !.value = AsCurrent(v)])

\* a legacy summary with two quantiles and one value decoded to one pair
C5_Witness ==
  /\ Called(1, "decode_metric")
  /\ val[1].x.value.tag = "AggregatedSummary1"
  /\ val[1].x.value.quantiles = <<1, 2>>
  /\ val[1].x.value.values = <<2>>
  /\ val[2].sort = "Metric"
  /\ val[2].x.data.value.quantiles = <<[quantile |-> 1, value |-> 2]>>

\* the strings of a sequence, each once, in ascending order
SortedDistinct(values) ==
  LET present == {values[i] : i \in 1..Len(values)}
      n == Cardinality(present)
  IN  CHOOSE q \in [1..n -> present] :
        /\ \A i, j \in 1..n : i < j =>
             \E a, b \in 1..Len(KeyOrder) : a < b /\ KeyOrder[a] = q[i] /\ KeyOrder[b] = q[j]
        /\ {q[i] : i \in 1..n} = present

\* an enum number as written back: the number of the variant it names, and
\* 0 (the default variant) when it names none
EnumWritten(n) == IF n = 1 THEN 1 ELSE 0

\* a current wire value as decoding and encoding returns it
ValueWritten(v) ==
  CASE v.tag = "Set" -> [v EXCEPT !.values = SortedDistinct(v.values)]
    [] v.tag = "Distribution2" -> [v EXCEPT !.statistic = EnumWritten(v.statistic)]
    [] OTHER -> v

C8_AbsentFatalEmptyLogFine ==
  Called(1, "decode_event")
    => LET event == val[1].x.event
       IN  /\ event = None => val[2] = Ent("Panic", Panic)
           /\ (event # None /\ event.tag = "Log" /\ DOMAIN event.log.fields = {})
                => /\ val[2].sort = "Event"
                   /\ val[2].x.tag = "Log"
                   /\ DOMAIN val[2].x.log.fields = {}

\* an envelope without an event was decoded, and the decode panicked
C8_Witness ==
  /\ Called(1, "decode_event")
  /\ val[1].x.event = None
  /\ val[2].sort = "Panic"

\* C9: decode_metric gives no namespace for "" and no tags for {}, and the
\* same namespace and tags otherwise; encode_metric gives "" for no
\* namespace and {} for no tags.
C9_EmptyIsAbsent ==
  \A i \in 1..Len(call) :
    /\ (call[i] = "decode_metric" /\ TimestampOk(val[i].x) /\ val[i].x.value # None)
         => /\ val[i + 1].sort = "Metric"
            /\ LET w == val[i].x
                   series == val[i + 1].x.series
               IN  /\ w.namespace = "" => series.name.namespace = None
                   /\ w.namespace # "" => series.name.namespace = Some(w.namespace)
                   /\ DOMAIN w.tags = {} => series.tags = None
                   /\ DOMAIN w.tags # {} => series.tags = Some(w.tags)
    /\ call[i] = "encode_metric"
         => LET series == val[i].x.series
                w == val[i + 1].x
            IN  /\ series.name.namespace = None => w.namespace = ""
                /\ series.tags = None => DOMAIN w.tags = {}

\* a wire metric without namespace and tags was decoded and encoded again
C9_Witness ==
  /\ Called(1, "decode_metric") /\ Called(2, "encode_metric")
  /\ val[1].x.namespace = "" /\ DOMAIN val[1].x.tags = {}
  /\ val[2].x.series.name.namespace = None /\ val[2].x.series.tags = None
  /\ val[3].x.namespace = "" /\ DOMAIN val[3].x.tags = {}

\* C10 as claimed: decode_metric returns a canonical Metric for every wire
\* Metric that has a value, whatever its kind number, namespace, tags and
\* timestamp.
C10_Total ==
  (Called(1, "decode_metric") /\ val[1].x.value # None)
    => val[2].sort = "Metric"

====
